---- MODULE Spec2Model ----
(***************************************************************************)
(* Group fairness computations of the MLU Responsible AI notebooks:        *)
(* calculate_di (disparate impact of predictions joined to the test data)  *)
(* and reweighing (per-(label, group) sample weights), with the notebook   *)
(* cells that feed the weights into the classifier's fit call, and the     *)
(* cells of the data-exploration notebook that compute DPL and CI for the  *)
(* race codes 6 and 8 of the census income table.                          *)
(*                                                                         *)
(* Numbers that Python holds as floats are kept as exact fractions         *)
(* [num, den]; den = 0 stands for the inf/nan a numpy division by zero     *)
(* produces.  round(x, 2) is modelled by Round2.                           *)
(***************************************************************************)
EXTENDS Integers, Sequences, FiniteSets, TLC

\* ---- bounds of the model ------------------------------------------------
MaxID == 4
MaxTrainRows == 6
MaxCalls == 1
MaxDfRows == 4

\* ---- value domains --------------------------------------------------------
IDs == 1..MaxID
\* age_groups: 0 = younger than 25 (g0), 1 = 25 or older (g1); 2 = any other value
TestGroups == {0, 1, 2}
\* credit_risk / credit_risk_pred: 0 = not credit risk (favorable), 1 = credit risk
Labels == {0, 1}
\* names a prediction column can have in a result table
PredColumns == {"credit_risk_pred", "credit_risk"}

SeqsUpTo(S, n) == UNION {[1..k -> S] : k \in 0..n}

\* the rows [ID, <column> |-> f[ID]] for the IDs in S, in the order of the IDs
RECURSIVE TestRows(_, _)
TestRows(f, S) ==
    IF S = {} THEN <<>>
    ELSE LET m == CHOOSE x \in S : \A y \in S : x <= y
         IN <<[ID |-> m, age_groups |-> f[m]]>> \o TestRows(f, S \ {m})

RECURSIVE PredRows(_, _)
PredRows(f, S) ==
    IF S = {} THEN <<>>
    ELSE LET m == CHOOSE x \in S : \A y \in S : x <= y
         IN <<[ID |-> m, pred |-> f[m]]>> \o PredRows(f, S \ {m})

\* german_credit_test.csv as read_csv returns it: one row per ID, in the
\* order of the IDs
TestTables ==
    UNION {{TestRows(f, S) : f \in [S -> TestGroups]} : S \in SUBSET IDs}

\* result tables: one row [ID, pred] per ID, in the order of the IDs
\* (result_df takes its IDs from test_data["ID"].tolist()); the IDs need not
\* be those of the test table at hand
PredTables ==
    UNION {{PredRows(f, S) : f \in [S -> Labels]} : S \in SUBSET IDs}

\* RAC1P codes of the census table: 6 and 8 are the two compared groups,
\* 1 is any other code, 0 is a missing value (equal to no code)
RAC1PValues == {6, 8, 1, 0}
\* ">50k": 1 = income above 50k (favorable), 0 = not
IncomeLabels == {0, 1}

VARIABLES
    test_data,      \* rows [ID, age_groups] of the test table
    pred_df,        \* [col: name of the prediction column, rows: rows [ID, pred]]
    pred_col,       \* the pred_col argument of calculate_di
    di_pc,          \* "call" before calculate_di ran, "done" after, "off" when unused
    di_result,      \* [kind, num, den, printed, raised]: outcome of calculate_di
    train_data,     \* [rows: rows [credit_risk, age_groups], columns, weights]
    return_list,    \* the return_list argument of the last reweighing call
    rw_result,      \* [kind, list, dict, printed, raised]: outcome of that call
    rw_calls,       \* number of reweighing calls made so far
    reweigh_dict,   \* the notebook's reweigh_dict: [kind, dict]
    sample_weight,  \* what the training cell handed to fit: [kind, list, raised]
    rw_pc,          \* notebook position: "prepared", "reweighed", "trained", "off"
    df,             \* rows [RAC1P, gt50k] of the census income table
    n_50k_gr6,      \* the four counts of the counting cell
    n_gr6,
    n_50k_gr8,
    n_gr8,
    dpl,            \* [kind, num, den, raised]: outcome of the dpl cell
    ci_norm,        \* [kind, num, den, raised]: outcome of the ci_norm cell
    eda_pc,         \* "loaded" before the counting cell ran, "counted" after, "off"
    notebook,       \* which project notebook is run: "day1", "day2", "day2_student", "day3"
    training_columns,     \* columns [name, dtype] of training_data besides the target
    categorical_features, \* the three feature lists of the notebook
    numerical_features,
    model_features,
    processed_columns,    \* columns of processed_train_df and processed_test_df
    rw_model,       \* [fitted, estimator, X, columns, sample_weight]
    di_model,
    test_predictions_rw,  \* [made, model, X, columns]
    test_predictions_di,
    test_predictions,
    calls,          \* the fit and predict calls made so far: [op, model, columns]
    nb_raised,      \* the exception that ended the run of the notebook, or ""
    nb_pc           \* the last cell run, in notebook order; "off" when unused

di_vars == <<test_data, pred_df, pred_col, di_pc, di_result>>
rw_vars == <<train_data, return_list, rw_result, rw_calls, reweigh_dict,
             sample_weight, rw_pc>>
eda_vars == <<df, n_50k_gr6, n_gr6, n_50k_gr8, n_gr8, dpl, ci_norm, eda_pc>>
nb_vars == <<notebook, training_columns, categorical_features, numerical_features,
             model_features, processed_columns, rw_model, di_model,
             test_predictions_rw, test_predictions_di, test_predictions, calls,
             nb_raised, nb_pc>>

\* ---- Python values --------------------------------------------------------
\* a float as an exact fraction
Float(n, d) == [num |-> n, den |-> d]
\* the result slot before calculate_di has run
NoResult == [kind |-> "None", num |-> 0, den |-> 0, printed |-> "", raised |-> ""]

\* ---- pandas helpers -------------------------------------------------------
Range(s) == {s[i] : i \in DOMAIN s}
Count(s, v) == Cardinality({i \in DOMAIN s : s[i] = v})

\* Series.unique(): the distinct values in order of first appearance
RECURSIVE unique(_)
unique(s) ==
    IF s = <<>> THEN <<>>
    ELSE LET u == unique(SubSeq(s, 1, Len(s) - 1))
             x == s[Len(s)]
         IN IF x \in Range(u) THEN u ELSE Append(u, x)

\* insert entry e into a sequence kept sorted by descending count, after its ties
RECURSIVE InsertByCount(_, _)
InsertByCount(sorted, e) ==
    IF sorted = <<>> THEN <<e>>
    ELSE IF Head(sorted).count >= e.count
         THEN <<Head(sorted)>> \o InsertByCount(Tail(sorted), e)
         ELSE <<e>> \o sorted

RECURSIVE SortByCount(_)
SortByCount(entries) ==
    IF entries = <<>> THEN <<>>
    ELSE InsertByCount(SortByCount(SubSeq(entries, 1, Len(entries) - 1)),
                       entries[Len(entries)])

\* Series.value_counts(): one entry [index, count] per value that occurs,
\* most frequent first
value_counts(s) ==
    LET u == unique(s)
    IN SortByCount([i \in DOMAIN u |-> [index |-> u[i], count |-> Count(s, u[i])]])

\* series.iloc[key]: the entry at position key (0-based), whatever its label
SeriesILoc(series, key) ==
    IF key + 1 \in DOMAIN series
    THEN [raised |-> "", value |-> series[key + 1].count]
    ELSE [raised |-> "IndexError", value |-> 0]

\* series.get(key, 0): the entry with label key, 0 when there is none
SeriesGet(series, key) ==
    IF \E i \in DOMAIN series : series[i].index = key
    THEN [raised |-> "",
          value |-> series[CHOOSE i \in DOMAIN series : series[i].index = key].count]
    ELSE [raised |-> "", value |-> 0]

\* series[key] on a series with an integer index: the entry with label key,
\* KeyError when no entry has that label
SeriesGetItem(series, key) ==
    IF \E i \in DOMAIN series : series[i].index = key
    THEN [raised |-> "",
          value |-> series[CHOOSE i \in DOMAIN series : series[i].index = key].count]
    ELSE [raised |-> "KeyError", value |-> 0]

\* rows of the right table with the ID of left row l, joined to l
RECURSIVE MatchRows(_, _)
MatchRows(l, right) ==
    IF right = <<>> THEN <<>>
    ELSE (IF Head(right).ID = l.ID
          THEN <<[ID |-> l.ID, pred |-> l.pred,
                  age_groups |-> Head(right).age_groups]>>
          ELSE <<>>) \o MatchRows(l, Tail(right))

\* DataFrame.merge(right, on="ID"): inner join, in the order of the left keys
RECURSIVE merge(_, _)
merge(left, right) ==
    IF left = <<>> THEN <<>>
    ELSE MatchRows(Head(left), right) \o merge(Tail(left), right)

\* di_df[di_df["age_groups"] >= g][pred_col]
GroupPredsFrom(di_df, g) ==
    LET sel == SelectSeq(di_df, LAMBDA r : r.age_groups >= g)
    IN [i \in DOMAIN sel |-> sel[i].pred]

\* di_df[di_df["age_groups"] == g][pred_col]
GroupPreds(di_df, g) ==
    LET sel == SelectSeq(di_df, LAMBDA r : r.age_groups = g)
    IN [i \in DOMAIN sel |-> sel[i].pred]

\* ---- calculate_di ---------------------------------------------------------
\* A result is [kind, num, den, printed, raised]: the returned value (None or a
\* float num/den), the line printed, and the exception that reached the caller.
ReturnedInverse(n, d) ==
    [kind |-> "float", num |-> d, den |-> n, printed |-> "", raised |-> ""]

Returned(n, d) ==
    [kind |-> "float", num |-> n, den |-> d, printed |-> "", raised |-> ""]

\* else-less fall through after the print of the group check: returns None
OnlyOneGroup ==
    [kind |-> "None", num |-> 0, den |-> 0,
     printed |-> "There is only one group present in the data.", raised |-> ""]

\* an except clause that prints and lets the exception go on to the caller
ExceptReraise(exc) ==
    [kind |-> "None", num |-> 0, den |-> 0,
     printed |-> "Wrong inputs provided.", raised |-> exc]

\* the bare except: prints and falls off the end of the function (None)
Except(exc) ==
    [kind |-> "None", num |-> 0, den |-> 0,
     printed |-> "Wrong inputs provided.", raised |-> ""]

\* The body of calculate_di, statement by statement.
CalculateDI(test, pred, col) ==
    LET di_df == merge(pred.rows, test)
        pos_outcomes_less25 == SeriesGetItem(value_counts(GroupPreds(di_df, 0)), 0)
        total_less25 == Len(GroupPreds(di_df, 0))
        pos_outcomes_geq25 == SeriesGetItem(value_counts(GroupPreds(di_df, 1)), 0)
        total_geq25 == Len(GroupPreds(di_df, 1))
    IN IF col # pred.col THEN Except("KeyError")      \* di_df[...][pred_col]
       ELSE IF pos_outcomes_less25.raised # ""
            THEN Except(pos_outcomes_less25.raised)
       ELSE IF pos_outcomes_geq25.raised # ""
            THEN Except(pos_outcomes_geq25.raised)
       ELSE IF total_geq25 = 0 THEN OnlyOneGroup
       ELSE IF total_less25 = 0 THEN OnlyOneGroup
       ELSE Returned(pos_outcomes_less25.value * total_geq25,
                     total_less25 * pos_outcomes_geq25.value)

\* ---- reweighing -----------------------------------------------------------
\* round(x, 2) of x = n/d (n >= 0, d > 0): the nearest multiple of 1/100,
\* a tie going to the even one
Round2(n, d) ==
    LET q == (200 * n + d) \div (2 * d)
        tie == (200 * n + d) % (2 * d) = 0
    IN Float(IF tie /\ q % 2 = 1 THEN q - 1 ELSE q, 100)

\* data[label] and data[sensitive_attr] as sequences
LabelColumn(data) == [i \in DOMAIN data.rows |-> data.rows[i].credit_risk]
GroupColumn(data) == [i \in DOMAIN data.rows |-> data.rows[i].age_groups]

\* len(data[(data[sensitive_attr] == val) & (data[label] == outcome)])
CellCount(data, outcome, val) ==
    Cardinality({i \in DOMAIN data.rows :
                    /\ data.rows[i].age_groups = val
                    /\ data.rows[i].credit_risk = outcome})

\* nom / denom for one cell: (n_g/N * n_l/N) / (n_gl/N), rounded to 2 decimals
CellWeight(data, outcome, val) ==
    Round2(Count(GroupColumn(data), val) * Count(LabelColumn(data), outcome),
           Len(data.rows) * CellCount(data, outcome, val))

\* the two nested loops over data[label].unique() and
\* data[sensitive_attr].unique(); nom / denom raises ZeroDivisionError in the
\* first cell that has no row
LoopRaises(data) ==
    \E outcome \in Range(unique(LabelColumn(data))),
        val \in Range(unique(GroupColumn(data))) :
            CellCount(data, outcome, val) = 0

LabelDict(data) ==
    [outcome \in Range(unique(LabelColumn(data))) |->
        [val \in Range(unique(GroupColumn(data))) |->
            CellWeight(data, outcome, val)]]

\* the weights of the rows taken in the opposite row order
WeightListReversed(data, label_dict) ==
    [i \in DOMAIN data.rows |->
        label_dict[data.rows[Len(data.rows) + 1 - i].credit_risk]
                  [data.rows[Len(data.rows) + 1 - i].age_groups]]

\* list(map(lambda x, y: label_dict[y][x], data[sensitive_attr], data[label]))
WeightList(data, label_dict) ==
    [i \in DOMAIN data.rows |->
        label_dict[data.rows[i].credit_risk][data.rows[i].age_groups]]

\* the column is written and the last row of the caller's frame is lost
SetWeightsDropRow(data, w) ==
    [data EXCEPT !.columns = @ \cup {"weights"}, !.weights = w,
                 !.rows = SubSeq(@, 1, Len(@) - 1)]

\* data["weights"] = ...: adds or replaces the column of the caller's frame
SetWeights(data, w) ==
    [data EXCEPT !.columns = @ \cup {"weights"}, !.weights = w]

NoDict == <<>>

\* the except clause: print(err), print("Dataframe might have no entries."),
\* and the function ends without a return
RwExcept(err) ==
    [kind |-> "None", list |-> <<>>, dict |-> NoDict,
     printed |-> <<err, "Dataframe might have no entries.">>, raised |-> ""]

\* reweighing(data, "credit_risk", "age_groups", rl): the result and the frame
\* the caller is left with
Reweighing(data, rl) ==
    IF LoopRaises(data)
    THEN [result |-> RwExcept("float division by zero"), data |-> data]
    ELSE LET label_dict == LabelDict(data)
             w == WeightList(data, label_dict)
         IN [result |->
                IF rl
                THEN [kind |-> "list", list |-> w, dict |-> NoDict,
                      printed |-> <<>>, raised |-> ""]
                ELSE [kind |-> "dict", list |-> <<>>, dict |-> label_dict,
                      printed |-> <<>>, raised |-> ""],
             data |-> SetWeights(data, w)]

\* ---- notebook cells around reweighing -------------------------------------
\* MinMaxScaler on the age_groups column of train_data[model_features]:
\* (x - min) / (max - min), and x - min when the column is constant
MinMaxScale(col, i) ==
    LET lo == CHOOSE x \in Range(col) : \A y \in Range(col) : x <= y
        hi == CHOOSE x \in Range(col) : \A y \in Range(col) : x >= y
    IN IF hi = lo THEN col[i] - lo ELSE (col[i] - lo) \div (hi - lo)

\* train_df: the processed features next to train_data[model_target]
TrainDf(data) ==
    [i \in DOMAIN data.rows |->
        [credit_risk |-> data.rows[i].credit_risk,
         age_groups |-> MinMaxScale(GroupColumn(data), i)]]

\* reweigh_dict[y][x] for every row of train_df; the exception it ends in, if any
LookupRaises(rd, train_df) ==
    IF train_df = <<>> THEN ""
    ELSE IF rd.kind = "None" THEN "TypeError"
    ELSE IF \E i \in DOMAIN train_df :
                \/ train_df[i].credit_risk \notin DOMAIN rd.dict
                \/ train_df[i].age_groups
                      \notin DOMAIN rd.dict[train_df[i].credit_risk]
         THEN "KeyError"
    ELSE ""

TrainSampleWeights(rd, train_df) ==
    [i \in DOMAIN train_df |-> rd.dict[train_df[i].credit_risk][train_df[i].age_groups]]

\* ---- the DPL and CI cells of the data-exploration notebook ----------------
\* df[df["RAC1P"] == g], with rows of a missing code read as rows of g
SelectRaceOrMissing(d, g) == SelectSeq(d, LAMBDA r : r.RAC1P = g \/ r.RAC1P = 0)

\* df[df["RAC1P"] == g]
SelectRace(d, g) == SelectSeq(d, LAMBDA r : r.RAC1P = g)

\* df[(df[">50k"] == 1) & (df["RAC1P"] == g)]
Select50kRace(d, g) == SelectSeq(SelectRace(d, g), LAMBDA r : r.gt50k = 1)

\* a / b for ints where a zero divisor gives 0
TrueDivOrZero(a, b) ==
    IF b = 0 THEN [raised |-> "", num |-> 0, den |-> 1]
    ELSE [raised |-> "", num |-> a, den |-> b]

\* a / b for Python ints: a float, or ZeroDivisionError
TrueDiv(a, b) ==
    IF b = 0 THEN [raised |-> "ZeroDivisionError", num |-> 0, den |-> 0]
    ELSE [raised |-> "", num |-> a, den |-> b]

\* |x - y|
SubAbs(x, y) ==
    LET n == x.num * y.den - y.num * x.den
    IN Float(IF n < 0 THEN 0 - n ELSE n, x.den * y.den)

\* x - y for floats
Sub(x, y) == Float(x.num * y.den - y.num * x.den, x.den * y.den)

\* the outcome slot of a cell that has not run
NoValue == [kind |-> "unset", num |-> 0, den |-> 1, raised |-> ""]
Value(x) == [kind |-> "float", num |-> x.num, den |-> x.den, raised |-> ""]
Raise(exc) == [kind |-> "raise", num |-> 0, den |-> 1, raised |-> exc]

\* each count over the other group's size
DplCellMixed(c6, g6, c8, g8) ==
    LET p6 == TrueDiv(c6, g8)
        p8 == TrueDiv(c8, g6)
    IN IF p6.raised # "" THEN Raise(p6.raised)
       ELSE IF p8.raised # "" THEN Raise(p8.raised)
       ELSE Value(Sub(p6, p8))

\* both counts over the first group's size
DplCellSameDen(c6, g6, c8, g8) ==
    LET p6 == TrueDiv(c6, g6)
        p8 == TrueDiv(c8, g6)
    IN IF p6.raised # "" THEN Raise(p6.raised)
       ELSE IF p8.raised # "" THEN Raise(p8.raised)
       ELSE Value(Sub(p6, p8))

\* the rate of an empty group taken as 0
DplCellSkipEmpty(c6, g6, c8, g8) ==
    Value(Sub(TrueDivOrZero(c6, g6), TrueDivOrZero(c8, g8)))

\* dpl = n_50k_gr6 / n_gr6 - n_50k_gr8 / n_gr8, evaluated left to right
DplCell(c6, g6, c8, g8) ==
    LET p6 == TrueDiv(c6, g6)
        p8 == TrueDiv(c8, g8)
    IN IF p6.raised # "" THEN Raise(p6.raised)
       ELSE IF p8.raised # "" THEN Raise(p8.raised)
       ELSE Value(Sub(p6, p8))

\* the first group's share n_gr6 / (n_gr6 + n_gr8)
CiNormCellShare(g6, g8) ==
    LET q == TrueDiv(g6, g6 + g8)
    IN IF q.raised # "" THEN Raise(q.raised) ELSE Value(q)

\* ci_norm = (n_gr6 - n_gr8) / (n_gr6 + n_gr8)
CiNormCell(g6, g8) ==
    LET q == TrueDiv(g6 - g8, g6 + g8)
    IN IF q.raised # "" THEN Raise(q.raised) ELSE Value(q)

\* ---- feature lists, training and prediction cells of the project notebooks
\* columns a training table can have besides the target credit_risk, in the
\* order of the file
AllColumns == <<"ID", "age_years", "age_groups", "credit_amount", "purpose">>
Dtypes == {"object", "number"}

\* training_data.drop("credit_risk", axis=1).select_dtypes(include=t).columns.tolist()
SelectDtypes(cols, t) ==
    LET s == SelectSeq(cols, LAMBDA c : c.dtype = t)
    IN [i \in DOMAIN s |-> s[i].name]

\* list.remove(x) for a list that holds x: the first occurrence goes
RECURSIVE ListRemove(_, _)
ListRemove(l, x) ==
    IF l = <<>> THEN <<>>
    ELSE IF Head(l) = x THEN Tail(l)
    ELSE <<Head(l)>> \o ListRemove(Tail(l), x)

\* a removal that leaves the list as it is
RemoveIfInKeep(l, x) == l

\* if x in l: l.remove(x)   (also: try: l.remove(x) except: pass)
RemoveIfIn(l, x) == IF x \in Range(l) THEN ListRemove(l, x) ELSE l

\* a column of a processed frame: a scaled numerical feature keeps its name,
\* a one-hot column carries the name of the categorical feature it encodes
Col(c) == [feature |-> c, encoded |-> FALSE]
OneHot(c) == [feature |-> c, encoded |-> TRUE]

\* columns=numerical_features + cat_ft_names
ProcessedColumns(num, cat) ==
    [i \in DOMAIN num |-> Col(num[i])] \o [i \in DOMAIN cat |-> OneHot(cat[i])]

\* DataFrame.drop(names, axis=1): the remaining columns, or KeyError when a
\* name is no column
Drop(columns, names) ==
    IF \E n \in names : Col(n) \notin Range(columns)
    THEN [raised |-> "KeyError", columns |-> <<>>]
    ELSE [raised |-> "",
          columns |-> SelectSeq(columns, LAMBDA c : c \notin {Col(n) : n \in names})]

\* train_df, df_transform_train: the processed columns and the target
WithTarget(columns) == columns \o <<Col("credit_risk")>>

NoModel == [fitted |-> FALSE, estimator |-> "", X |-> "", columns |-> <<>>,
            sample_weight |-> FALSE]
NoPredictions == [made |-> FALSE, model |-> "", X |-> "", columns |-> <<>>]

\* ---- specifications ------------------------------------------------------
NoRwResult ==
    [kind |-> "None", list |-> <<>>, dict |-> NoDict, printed |-> <<>>, raised |-> ""]

RWIdle ==
    /\ train_data = [rows |-> <<>>, columns |-> {"credit_risk", "age_groups"},
                     weights |-> <<>>]
    /\ return_list = TRUE
    /\ rw_result = NoRwResult
    /\ rw_calls = 0
    /\ reweigh_dict = [kind |-> "unset", dict |-> NoDict]
    /\ sample_weight = [kind |-> "unset", list |-> <<>>, raised |-> ""]
    /\ rw_pc = "off"

DIIdle ==
    /\ test_data = <<>>
    /\ pred_df = [col |-> "credit_risk_pred", rows |-> <<>>]
    /\ pred_col = "credit_risk_pred"
    /\ di_pc = "off"
    /\ di_result = NoResult

DIInit ==
    /\ test_data \in TestTables
    /\ pred_df \in [col : PredColumns, rows : PredTables]
    /\ pred_col = "credit_risk_pred"     \* what every call in the notebooks passes
    /\ di_pc = "call"
    /\ di_result = NoResult

calculate_di ==
    /\ di_pc = "call"
    /\ di_result' = CalculateDI(test_data, pred_df, pred_col)
    /\ di_pc' = "done"
    /\ UNCHANGED <<test_data, pred_df, pred_col>>

\* train_data as the split cell leaves it: label and group per row, no
\* weights column yet
RWInit ==
    /\ train_data \in
         [rows : SeqsUpTo([credit_risk : Labels, age_groups : {0, 1}], MaxTrainRows),
          columns : {{"credit_risk", "age_groups"}},
          weights : {<<>>}]
    /\ return_list = TRUE
    /\ rw_result = NoRwResult
    /\ rw_calls = 0
    /\ reweigh_dict = [kind |-> "unset", dict |-> NoDict]
    /\ sample_weight = [kind |-> "unset", list |-> <<>>, raised |-> ""]
    /\ rw_pc = "prepared"

\* a caller runs reweighing(train_data, "credit_risk", "age_groups", rl)
reweighing(rl) ==
    /\ rw_pc \in {"prepared", "reweighed"}
    /\ rw_calls < MaxCalls
    /\ \E r \in {Reweighing(train_data, rl)} :
          /\ rw_result' = r.result
          /\ train_data' = r.data
    /\ return_list' = rl
    /\ rw_calls' = rw_calls + 1
    /\ UNCHANGED <<reweigh_dict, sample_weight, rw_pc>>

\* reweigh_dict = reweighing(train_data, "credit_risk", "age_groups", False)
reweigh_dict_cell ==
    /\ rw_pc = "prepared"
    /\ \E r \in {Reweighing(train_data, FALSE)} :
          /\ rw_result' = r.result
          /\ train_data' = r.data
          /\ reweigh_dict' = [kind |-> r.result.kind, dict |-> r.result.dict]
    /\ return_list' = FALSE
    /\ rw_pc' = "reweighed"
    /\ UNCHANGED <<rw_calls, sample_weight>>

\* the cell "Training the model with re-weighting": builds
\* train_sample_weights from reweigh_dict and passes it to lr_rw.fit
train_rw_cell ==
    /\ rw_pc = "reweighed"
    /\ \E train_df \in {TrainDf(train_data)} :
       LET exc == LookupRaises(reweigh_dict, train_df)
       IN sample_weight' =
            IF exc # ""
            THEN [kind |-> "raise", list |-> <<>>, raised |-> exc]
            ELSE [kind |-> "list",
                  list |-> TrainSampleWeights(reweigh_dict, train_df),
                  raised |-> ""]
    /\ rw_pc' = "trained"
    /\ UNCHANGED <<train_data, return_list, rw_result, rw_calls, reweigh_dict>>

EDAIdle ==
    /\ df = <<>>
    /\ n_50k_gr6 = 0 /\ n_gr6 = 0 /\ n_50k_gr8 = 0 /\ n_gr8 = 0
    /\ dpl = NoValue
    /\ ci_norm = NoValue
    /\ eda_pc = "off"

\* df as the conversion and cast cells leave it
EDAInit ==
    /\ df \in SeqsUpTo([RAC1P : RAC1PValues, gt50k : IncomeLabels], MaxDfRows)
    /\ n_50k_gr6 = 0 /\ n_gr6 = 0 /\ n_50k_gr8 = 0 /\ n_gr8 = 0
    /\ dpl = NoValue
    /\ ci_norm = NoValue
    /\ eda_pc = "loaded"

\* the cell that counts the rows of groups 6 and 8
count_cell ==
    /\ eda_pc = "loaded"
    /\ n_50k_gr6' = Len(Select50kRace(df, 6))
    /\ n_gr6' = Len(SelectRace(df, 6))
    /\ n_50k_gr8' = Len(Select50kRace(df, 8))
    /\ n_gr8' = Len(SelectRace(df, 8))
    /\ eda_pc' = "counted"
    /\ UNCHANGED <<df, dpl, ci_norm>>

\* the cell dpl = ...; dpl
dpl_cell ==
    /\ eda_pc = "counted"
    /\ dpl.kind = "unset"
    /\ dpl' = DplCell(n_50k_gr6, n_gr6, n_50k_gr8, n_gr8)
    /\ UNCHANGED <<df, n_50k_gr6, n_gr6, n_50k_gr8, n_gr8, ci_norm, eda_pc>>

\* the cell ci_norm = ...; ci_norm
ci_norm_cell ==
    /\ eda_pc = "counted"
    /\ ci_norm.kind = "unset"
    /\ ci_norm' = CiNormCell(n_gr6, n_gr8)
    /\ UNCHANGED <<df, n_50k_gr6, n_gr6, n_50k_gr8, n_gr8, dpl, eda_pc>>

NBIdle ==
    /\ notebook = "day1"
    /\ training_columns = <<>>
    /\ categorical_features = <<>>
    /\ numerical_features = <<>>
    /\ model_features = <<>>
    /\ processed_columns = <<>>
    /\ rw_model = NoModel
    /\ di_model = NoModel
    /\ test_predictions_rw = NoPredictions
    /\ test_predictions_di = NoPredictions
    /\ test_predictions = NoPredictions
    /\ calls = <<>>
    /\ nb_raised = ""
    /\ nb_pc = "off"

\* the solution notebook of day 2 or the notebook of day 3, before its
\* feature-selection cell, on a training table with some of the columns
PipelineInit ==
    /\ notebook \in {"day2", "day3"}
    /\ \E S \in SUBSET Range(AllColumns) : \E d \in [S -> Dtypes] :
          training_columns =
             LET s == SelectSeq(AllColumns, LAMBDA c : c \in S)
             IN [i \in DOMAIN s |-> [name |-> s[i], dtype |-> d[s[i]]]]
    /\ categorical_features = <<>>
    /\ numerical_features = <<>>
    /\ model_features = <<>>
    /\ processed_columns = <<>>
    /\ rw_model = NoModel
    /\ di_model = NoModel
    /\ test_predictions_rw = NoPredictions
    /\ test_predictions_di = NoPredictions
    /\ test_predictions = NoPredictions
    /\ calls = <<>>
    /\ nb_raised = ""
    /\ nb_pc = "start"

\* the cell that splits the columns by dtype
select_cell ==
    /\ nb_pc = "start"
    /\ categorical_features' = SelectDtypes(training_columns, "object")
    /\ numerical_features' = SelectDtypes(training_columns, "number")
    /\ nb_pc' = "selected"
    /\ UNCHANGED <<notebook, training_columns, model_features, processed_columns,
                   rw_model, di_model, test_predictions_rw, test_predictions_di,
                   test_predictions, calls, nb_raised>>

\* the cell that sets model_target and model_features; in the notebook of
\* day 3 it first takes the sensitive feature out of the two lists
features_cell ==
    /\ nb_pc = "selected"
    /\ \E num \in {IF notebook = "day3"
                    THEN RemoveIfIn(numerical_features, "age_groups")
                    ELSE numerical_features} :
       \E cat \in {IF notebook = "day3"
                    THEN RemoveIfIn(categorical_features, "age_groups")
                    ELSE categorical_features} :
          /\ numerical_features' = num
          /\ categorical_features' = cat
          /\ model_features' = cat \o num
    /\ nb_pc' = "features"
    /\ UNCHANGED <<notebook, training_columns, processed_columns,
                   rw_model, di_model, test_predictions_rw, test_predictions_di,
                   test_predictions, calls, nb_raised>>

\* the body of a removal cell: to_remove goes from each list that holds it
RemovalCell(to_remove) ==
    /\ model_features' = RemoveIfIn(model_features, to_remove)
    /\ categorical_features' = RemoveIfIn(categorical_features, to_remove)
    /\ numerical_features' = RemoveIfIn(numerical_features, to_remove)
    /\ UNCHANGED <<notebook, training_columns, processed_columns,
                   rw_model, di_model, test_predictions_rw, test_predictions_di,
                   test_predictions, calls, nb_raised>>

\* the cell with to_remove = "ID", run for the first time or again
remove_id_cell ==
    /\ nb_pc \in {"features", "removed_id", "removed_age"}
    /\ RemovalCell("ID")
    /\ nb_pc' = IF nb_pc = "features" THEN "removed_id" ELSE nb_pc

\* the cell with to_remove = "age_years", run for the first time or again
remove_age_years_cell ==
    /\ nb_pc \in {"removed_id", "removed_age"}
    /\ RemovalCell("age_years")
    /\ nb_pc' = "removed_age"

\* the cells that fit the data processor and name the processed columns
process_cell ==
    /\ notebook = "day2"
    /\ nb_pc = "removed_age"
    /\ processed_columns' = ProcessedColumns(numerical_features, categorical_features)
    /\ nb_pc' = "processed"
    /\ UNCHANGED <<notebook, training_columns, categorical_features,
                   numerical_features, model_features,
                   rw_model, di_model, test_predictions_rw, test_predictions_di,
                   test_predictions, calls, nb_raised>>

\* the cells that build the BinaryLabelDatasets with the protected attribute
\* age_groups and apply the DisparateImpactRemover to train_df and test_df
di_transform_cell ==
    /\ nb_pc = "processed"
    /\ IF Col("age_groups") \in Range(processed_columns)
       THEN nb_pc' = "transformed" /\ nb_raised' = ""
       ELSE nb_pc' = "error" /\ nb_raised' = "KeyError"
    /\ UNCHANGED <<notebook, training_columns, categorical_features,
                   numerical_features, model_features, processed_columns,
                   rw_model, di_model, test_predictions_rw, test_predictions_di,
                   test_predictions, calls>>

\* the cell "Training the model with re-weighting"
fit_rw_cell ==
    /\ nb_pc = "transformed"
    /\ \E X_train \in {Drop(processed_columns, {"age_groups"})} :
          IF X_train.raised # ""
          THEN /\ nb_pc' = "error" /\ nb_raised' = X_train.raised
               /\ UNCHANGED <<rw_model, calls>>
          ELSE /\ rw_model' = [fitted |-> TRUE, estimator |-> "lr_rw",
                               X |-> "X_train", columns |-> X_train.columns,
                               sample_weight |-> TRUE]
               /\ calls' = Append(calls, [op |-> "fit", model |-> "rw_model",
                                          columns |-> X_train.columns])
               /\ nb_pc' = "fit_rw" /\ nb_raised' = ""
    /\ UNCHANGED <<notebook, training_columns, categorical_features,
                   numerical_features, model_features, processed_columns,
                   di_model, test_predictions_rw, test_predictions_di,
                   test_predictions>>

\* the cell "Training the model with disparate impact remover"
fit_di_cell ==
    /\ nb_pc = "fit_rw"
    /\ \E X_train_transform \in
            {Drop(WithTarget(processed_columns), {"credit_risk", "age_groups"})} :
          IF X_train_transform.raised # ""
          THEN /\ nb_pc' = "error" /\ nb_raised' = X_train_transform.raised
               /\ UNCHANGED <<di_model, calls>>
          ELSE /\ di_model' = [fitted |-> TRUE, estimator |-> "lr_di",
                               X |-> "X_train_transform",
                               columns |-> X_train_transform.columns,
                               sample_weight |-> FALSE]
               /\ calls' = Append(calls, [op |-> "fit", model |-> "di_model",
                                          columns |-> X_train_transform.columns])
               /\ nb_pc' = "fit_di" /\ nb_raised' = ""
    /\ UNCHANGED <<notebook, training_columns, categorical_features,
                   numerical_features, model_features, processed_columns,
                   rw_model, test_predictions_rw, test_predictions_di,
                   test_predictions>>

\* the cell that builds X_test and X_test_di and asks the two models
predict_cell ==
    /\ nb_pc = "fit_di"
    /\ \E X_test \in {Drop(processed_columns, {"age_groups"})} :
       \E X_test_di \in {Drop(processed_columns, {"age_groups"})} :
          IF X_test.raised # "" \/ X_test_di.raised # ""
          THEN /\ nb_pc' = "error" /\ nb_raised' = "KeyError"
               /\ UNCHANGED <<test_predictions_rw, test_predictions_di, calls>>
          ELSE /\ test_predictions_rw' =
                     [made |-> TRUE, model |-> "di_model", X |-> "X_test",
                      columns |-> X_test.columns]
               /\ test_predictions_di' =
                     [made |-> TRUE, model |-> "rw_model", X |-> "X_test_di",
                      columns |-> X_test_di.columns]
               /\ calls' = calls \o
                     <<[op |-> "predict", model |-> "di_model",
                        columns |-> X_test.columns],
                       [op |-> "predict", model |-> "rw_model",
                        columns |-> X_test_di.columns]>>
               /\ nb_pc' = "predicted" /\ nb_raised' = ""
    /\ UNCHANGED <<notebook, training_columns, categorical_features,
                   numerical_features, model_features, processed_columns,
                   rw_model, di_model, test_predictions>>

\* test_predictions = test_predictions_di
choose_cell ==
    /\ nb_pc = "predicted"
    /\ test_predictions' = test_predictions_di
    /\ nb_pc' = "chosen"
    /\ UNCHANGED <<notebook, training_columns, categorical_features,
                   numerical_features, model_features, processed_columns,
                   rw_model, di_model, test_predictions_rw, test_predictions_di,
                   calls, nb_raised>>

\* the prediction column the result-assembly cell of a notebook writes
ResultColumn(nb) == IF nb = "day2_student" THEN "credit_risk" ELSE "credit_risk_pred"

\* the Evaluate Results section of one of the four project notebooks, with a
\* prediction for every row of the test table
EvalInit ==
    /\ notebook \in {"day1", "day2", "day2_student", "day3"}
    /\ test_data \in TestTables
    /\ pred_df = [col |-> "credit_risk_pred", rows |-> <<>>]
    /\ pred_col = "credit_risk_pred"
    /\ di_pc = "assemble"
    /\ di_result = NoResult
    /\ test_predictions \in
          {[made |-> TRUE, model |-> "", X |-> "", columns |-> <<>>, labels |-> l] :
              l \in [1..Len(test_data) -> Labels]}
    /\ training_columns = <<>>
    /\ categorical_features = <<>>
    /\ numerical_features = <<>>
    /\ model_features = <<>>
    /\ processed_columns = <<>>
    /\ rw_model = NoModel
    /\ di_model = NoModel
    /\ test_predictions_rw = NoPredictions
    /\ test_predictions_di = NoPredictions
    /\ calls = <<>>
    /\ nb_raised = ""
    /\ nb_pc = "predicted"

\* the cell that assembles result_df from test_data["ID"] and test_predictions
result_cell ==
    /\ nb_pc = "predicted" /\ di_pc = "assemble"
    /\ pred_df' = [col |-> ResultColumn(notebook),
                   rows |-> [i \in DOMAIN test_data |->
                               [ID |-> test_data[i].ID,
                                pred |-> test_predictions.labels[i]]]]
    /\ di_pc' = "call"
    /\ nb_pc' = "assembled"
    /\ UNCHANGED <<test_data, pred_col, di_result>>
    /\ UNCHANGED <<notebook, training_columns, categorical_features,
                   numerical_features, model_features, processed_columns,
                   rw_model, di_model, test_predictions_rw, test_predictions_di,
                   test_predictions, calls, nb_raised>>

\* the accuracy_score and f1_score cells: both read result_df["credit_risk_pred"]
accuracy_cell ==
    /\ nb_pc = "assembled" /\ di_pc = "done"
    /\ IF pred_df.col = "credit_risk_pred"
       THEN nb_pc' = "scored" /\ nb_raised' = ""
       ELSE nb_pc' = "error" /\ nb_raised' = "KeyError"
    /\ UNCHANGED di_vars
    /\ UNCHANGED <<notebook, training_columns, categorical_features,
                   numerical_features, model_features, processed_columns,
                   rw_model, di_model, test_predictions_rw, test_predictions_di,
                   test_predictions, calls>>

vars == <<di_vars, rw_vars, eda_vars, nb_vars>>

DINext == calculate_di /\ UNCHANGED <<rw_vars, eda_vars, nb_vars>>

RWNext ==
    \/ (\E rl \in BOOLEAN : reweighing(rl)) /\ UNCHANGED <<di_vars, eda_vars, nb_vars>>
    \/ reweigh_dict_cell /\ UNCHANGED <<di_vars, eda_vars, nb_vars>>
    \/ train_rw_cell /\ UNCHANGED <<di_vars, eda_vars, nb_vars>>

InitDI == DIInit /\ RWIdle /\ EDAIdle /\ NBIdle
InitRW == RWInit /\ DIIdle /\ EDAIdle /\ NBIdle

\* calculate_di applied to every pair of tables within the bounds
SpecDI == InitDI /\ [][DINext]_vars

\* the reweighing function and the notebook cells that use it
SpecRW == InitRW /\ [][RWNext]_vars

EDANext ==
    \/ count_cell /\ UNCHANGED <<di_vars, rw_vars, nb_vars>>
    \/ dpl_cell /\ UNCHANGED <<di_vars, rw_vars, nb_vars>>
    \/ ci_norm_cell /\ UNCHANGED <<di_vars, rw_vars, nb_vars>>

InitEDA == EDAInit /\ DIIdle /\ RWIdle /\ NBIdle

\* the counting, dpl and ci_norm cells on every census table within the bounds
SpecEDA == InitEDA /\ [][EDANext]_vars

MetricsNext == DINext \/ EDANext

InitMetrics == InitDI \/ InitEDA

\* the three group metrics, each on its own notebook's table
SpecMetrics == InitMetrics /\ [][MetricsNext]_vars

PipelineNext ==
    \/ select_cell /\ UNCHANGED <<di_vars, rw_vars, eda_vars>>
    \/ features_cell /\ UNCHANGED <<di_vars, rw_vars, eda_vars>>
    \/ remove_id_cell /\ UNCHANGED <<di_vars, rw_vars, eda_vars>>
    \/ remove_age_years_cell /\ UNCHANGED <<di_vars, rw_vars, eda_vars>>
    \/ process_cell /\ UNCHANGED <<di_vars, rw_vars, eda_vars>>
    \/ di_transform_cell /\ UNCHANGED <<di_vars, rw_vars, eda_vars>>
    \/ fit_rw_cell /\ UNCHANGED <<di_vars, rw_vars, eda_vars>>
    \/ fit_di_cell /\ UNCHANGED <<di_vars, rw_vars, eda_vars>>
    \/ predict_cell /\ UNCHANGED <<di_vars, rw_vars, eda_vars>>
    \/ choose_cell /\ UNCHANGED <<di_vars, rw_vars, eda_vars>>

InitPipeline == PipelineInit /\ DIIdle /\ RWIdle /\ EDAIdle

\* the notebook cells from feature selection to the choice of predictions
SpecPipeline == InitPipeline /\ [][PipelineNext]_vars

EvalNext ==
    \/ result_cell /\ UNCHANGED <<rw_vars, eda_vars>>
    \/ calculate_di /\ UNCHANGED <<rw_vars, eda_vars, nb_vars>>
    \/ accuracy_cell /\ UNCHANGED <<rw_vars, eda_vars>>

InitEval == EvalInit /\ RWIdle /\ EDAIdle

\* the Evaluate Results section: result_df, calculate_di, accuracy and F1
SpecEval == InitEval /\ [][EvalNext]_vars

\* ---- what the properties count, taken from the tables themselves ----------
\* pairs (prediction row, test row) with the same ID: the rows of the join
JoinedPairs ==
    {p \in (DOMAIN pred_df.rows) \X (DOMAIN test_data) :
        pred_df.rows[p[1]].ID = test_data[p[2]].ID}
GroupPairs(g) == {p \in JoinedPairs : test_data[p[2]].age_groups = g}
FavorablePairs(g) == {p \in GroupPairs(g) : pred_df.rows[p[1]].pred = 0}
NGroup(g) == Cardinality(GroupPairs(g))
NFavorable(g) == Cardinality(FavorablePairs(g))
\* the table handed in as pred_df has the column pred_col names
ColumnPresent == pred_col = pred_df.col
\* some prediction row has an ID that no test row has
UnmatchedPrediction ==
    \E i \in DOMAIN pred_df.rows :
        \A j \in DOMAIN test_data : test_data[j].ID # pred_df.rows[i].ID
DIDone == di_pc = "done"

TrainN == Len(train_data.rows)
TrainNg(g) == Cardinality({i \in DOMAIN train_data.rows : train_data.rows[i].age_groups = g})
TrainNl(l) == Cardinality({i \in DOMAIN train_data.rows : train_data.rows[i].credit_risk = l})
TrainNgl(l, g) ==
    Cardinality({i \in DOMAIN train_data.rows :
                    train_data.rows[i].credit_risk = l /\ train_data.rows[i].age_groups = g})
\* an observed label and an observed group that never occur together
ZeroCell == \E l \in Labels, g \in {0, 1} : TrainNl(l) > 0 /\ TrainNg(g) > 0 /\ TrainNgl(l, g) = 0
\* reweighing has been called at least once
RwCalled == rw_calls > 0 \/ rw_pc \in {"reweighed", "trained"}
\* weight w is exactly (n_g * n_l) / (N * n_gl) for the cell (l, g)
ExactWeight(w, l, g) == w.num * (TrainN * TrainNgl(l, g)) = (TrainNg(g) * TrainNl(l)) * w.den

\* ---- C1 -------------------------------------------------------------------
\* C1: when both age groups have rows in the join and the favorable label 0
\* occurs in each, calculate_di returns
\* (count(pred = 0, g0) / count(g0)) / (count(pred = 0, g1) / count(g1)),
\* whichever label is the more frequent one in a group.
C1_DIValue ==
    (DIDone /\ ColumnPresent /\ NFavorable(0) > 0 /\ NFavorable(1) > 0)
    => /\ di_result.kind = "float"
       /\ di_result.den # 0
       /\ di_result.num * (NGroup(0) * NFavorable(1))
            = (NFavorable(0) * NGroup(1)) * di_result.den

\* a computed DI for a younger group in which label 1 is the more frequent one
C1_Witness ==
    /\ DIDone /\ ColumnPresent
    /\ NFavorable(0) > 0 /\ NFavorable(1) > 0
    /\ 2 * NFavorable(0) < NGroup(0)
    /\ di_result.kind = "float"

\* ---- C2 -------------------------------------------------------------------
\* C2: every weight reweighing returns for a cell with n_gl > 0 equals
\* (n_g * n_l) / (N * n_gl) exactly, in the mapping and in the per-row list.
C2_ExactWeights ==
    RwCalled =>
      /\ rw_result.kind = "dict" =>
            \A l \in DOMAIN rw_result.dict : \A g \in DOMAIN rw_result.dict[l] :
                TrainNgl(l, g) > 0 => ExactWeight(rw_result.dict[l][g], l, g)
      /\ rw_result.kind = "list" =>
            \A i \in DOMAIN rw_result.list :
                ExactWeight(rw_result.list[i], train_data.rows[i].credit_risk,
                            train_data.rows[i].age_groups)

\* ---- C3 -------------------------------------------------------------------
\* C3: with g0 or g1 empty after the join, calculate_di fails with a
\* SingleGroupError and returns no number.
C3_SingleGroupError ==
    (DIDone /\ ColumnPresent /\ (NGroup(0) = 0 \/ NGroup(1) = 0))
    => /\ di_result.raised = "SingleGroupError"
       /\ di_result.kind # "float"

\* ---- C4 -------------------------------------------------------------------
\* C4: g0 non-empty without a favorable prediction, g1 with one: calculate_di
\* returns the value 0 and reports no error.
C4_ZeroIsAValue ==
    (DIDone /\ ColumnPresent /\ NGroup(0) > 0 /\ NFavorable(0) = 0
        /\ NFavorable(1) > 0)
    => /\ di_result.kind = "float"
       /\ di_result.num = 0 /\ di_result.den # 0
       /\ di_result.raised = "" /\ di_result.printed = ""

\* ---- C5 -------------------------------------------------------------------
\* C5: when an observed label and an observed group never co-occur,
\* reweighing fails with an UndefinedWeightError delivered to its caller, and
\* no weight list built from that call reaches the fit call.
C5_UndefinedWeightError ==
    (RwCalled /\ ZeroCell)
    => /\ rw_result.raised = "UndefinedWeightError"
       /\ rw_result.kind = "None"
       /\ sample_weight.kind # "list"

\* ---- C6 -------------------------------------------------------------------
\* C6: a prediction row whose ID matches no test row makes calculate_di
\* report a join error, or at least shows in row counts the result exposes;
\* it is not silently left out of the group counts.  Stated for tables on
\* which nothing else goes wrong (column present, a favorable prediction in
\* both groups), so that the unmatched row is the only thing to report.
ExposesJoinCounts(r) == {"pre_join_rows", "post_join_rows"} \subseteq DOMAIN r
C6_UnmatchedReported ==
    (DIDone /\ UnmatchedPrediction /\ ColumnPresent
        /\ NFavorable(0) > 0 /\ NFavorable(1) > 0)
    => \/ di_result.raised = "JoinMismatchError"
       \/ ExposesJoinCounts(di_result)

\* ---- C7 -------------------------------------------------------------------
\* C7: each failure kind reaches the caller as its own error: the error
\* raised by calculate_di or reweighing names a precondition that failed.
DIFailureKinds ==
    (IF ColumnPresent THEN {} ELSE {"InvalidConfigurationError"})
    \cup (IF UnmatchedPrediction THEN {"JoinMismatchError"} ELSE {})
    \cup (IF ColumnPresent /\ (NGroup(0) = 0 \/ NGroup(1) = 0)
          THEN {"SingleGroupError"} ELSE {})
C7_DistinctErrors ==
    /\ (DIDone /\ DIFailureKinds # {}) => di_result.raised \in DIFailureKinds
    /\ (RwCalled /\ ZeroCell) => rw_result.raised \in {"UndefinedWeightError"}

\* ---- C8 -------------------------------------------------------------------
\* C8: calculate_di ends either with a number (finite, not NaN) or with a
\* failure signal that is not a number; when no comparison is possible
\* (missing column or an empty group) the outcome is never a number.
NoValidComparison == ~ColumnPresent \/ NGroup(0) = 0 \/ NGroup(1) = 0
C8_NumberOrFailure ==
    DIDone =>
      /\ di_result.kind \in {"float", "None"}
      /\ di_result.kind = "float" => di_result.den > 0 /\ di_result.num >= 0
      /\ NoValidComparison => di_result.kind = "None"

\* calculate_di ran on tables in which only the older group has rows
C8_Witness ==
    /\ DIDone /\ ColumnPresent
    /\ NGroup(0) = 0 /\ NFavorable(1) > 0
    /\ di_result.kind = "None"

\* ---- C9 -------------------------------------------------------------------
\* C9: the sample weight the fit call receives for a training row is the
\* unrounded (n_g * n_l) / (N * n_gl) of the row's cell.
C9_FitGetsUnrounded ==
    (rw_pc = "trained" /\ sample_weight.kind = "list")
    => \A i \in DOMAIN sample_weight.list :
          ExactWeight(sample_weight.list[i], train_data.rows[i].credit_risk,
                      train_data.rows[i].age_groups)

\* ---- C10 ------------------------------------------------------------------
\* C10: no step of calculate_di or reweighing changes an input table.
C10_InputsUnchanged ==
    [][/\ test_data' = test_data
       /\ pred_df' = pred_df
       /\ train_data' = train_data]_vars

\* ---- C11 ------------------------------------------------------------------
\* C11: the per-row list (return_list=True) has one entry per row of the
\* input, in row order, and entry i is the entry of the mapping
\* (return_list=False) at row i's label and group, with no difference; the
\* list the training cell builds from reweigh_dict is that same list.
C11_ListAgreesWithDict ==
    /\ (rw_result.kind = "list" /\ reweigh_dict.kind = "dict")
        => /\ Len(rw_result.list) = Len(train_data.rows)
           /\ \A i \in DOMAIN train_data.rows :
                 rw_result.list[i] =
                    reweigh_dict.dict[train_data.rows[i].credit_risk]
                                     [train_data.rows[i].age_groups]
    /\ (rw_result.kind = "list" /\ sample_weight.kind = "list")
        => sample_weight.list = rw_result.list

\* both forms were returned for a frame whose rows do not all weigh the same
C11_Witness ==
    /\ rw_result.kind = "list" /\ reweigh_dict.kind = "dict"
    /\ sample_weight.kind = "list"
    /\ Len(rw_result.list) >= 5
    /\ rw_result.list[1] # rw_result.list[Len(rw_result.list)]

\* ---- what the DPL and CI properties count, taken from df itself ----------
RaceRows(g) == {i \in DOMAIN df : df[i].RAC1P = g}
RaceN(g) == Cardinality(RaceRows(g))
RaceFavorable(g) == Cardinality({i \in RaceRows(g) : df[i].gt50k = 1})
DplDone == dpl.kind # "unset"
CiDone == ci_norm.kind # "unset"
\* the table with the codes 6 and 8 exchanged
SwapRace(d) ==
    [i \in DOMAIN d |->
        [d[i] EXCEPT !.RAC1P = IF @ = 6 THEN 8 ELSE IF @ = 8 THEN 6 ELSE @]]
\* what the counting cell and the dpl cell give on table d
DplOn(d) ==
    DplCell(Len(Select50kRace(d, 6)), Len(SelectRace(d, 6)),
            Len(Select50kRace(d, 8)), Len(SelectRace(d, 8)))
\* what the counting cell and the ci_norm cell give on table d
CiNormOn(d) == CiNormCell(Len(SelectRace(d, 6)), Len(SelectRace(d, 8)))

\* ---- C12 ------------------------------------------------------------------
\* C12: when groups 6 and 8 both have rows, the dpl cell yields
\* count(>50k, 6) / count(6) - count(>50k, 8) / count(8), a number in [-1, 1].
C12_DplInRange ==
    (DplDone /\ RaceN(6) > 0 /\ RaceN(8) > 0)
    => /\ dpl.kind = "float"
       /\ dpl.den > 0
       /\ dpl.num * (RaceN(6) * RaceN(8))
            = (RaceFavorable(6) * RaceN(8) - RaceFavorable(8) * RaceN(6)) * dpl.den
       /\ 0 - dpl.den <= dpl.num /\ dpl.num <= dpl.den

\* a DPL at the upper end of the range, for groups of different sizes
C12_Witness ==
    /\ DplDone /\ RaceN(6) > 0 /\ RaceN(8) > 0 /\ RaceN(6) # RaceN(8)
    /\ dpl.kind = "float" /\ dpl.num = dpl.den

\* ---- C13 ------------------------------------------------------------------
\* C13: when group 6 or group 8 has no row, the dpl cell fails with an
\* exception; dpl is then no number, 0 included.
C13_DplFailsOnEmptyGroup ==
    (DplDone /\ (RaceN(6) = 0 \/ RaceN(8) = 0))
    => /\ dpl.kind = "raise"
       /\ dpl.raised = "ZeroDivisionError"

\* the dpl cell ran on a table with rows of group 6 and none of group 8
C13_Witness ==
    /\ DplDone /\ RaceN(6) > 0 /\ RaceN(8) = 0
    /\ dpl.kind = "raise"

\* ---- C16 ------------------------------------------------------------------
\* C16: with both groups non-empty, the DPL of the table with the two groups
\* exchanged is the negative of the DPL of the table.
C16_DplAntisymmetric ==
    (DplDone /\ RaceN(6) > 0 /\ RaceN(8) > 0)
    => /\ dpl.kind = "float"
       /\ DplOn(SwapRace(df)).kind = "float"
       /\ DplOn(SwapRace(df)).num * dpl.den = (0 - dpl.num) * DplOn(SwapRace(df)).den

\* a non-zero DPL for groups of different sizes
C16_Witness ==
    /\ DplDone /\ dpl.kind = "float" /\ dpl.num # 0
    /\ RaceN(6) > RaceN(8) /\ RaceFavorable(8) > 0

\* ---- C17 ------------------------------------------------------------------
\* C17: when groups 6 and 8 have a row between them, the CI of the table with
\* the two groups exchanged is the negative of the CI of the table, and the
\* CI is 0 when the two groups have the same number of rows.
C17_CiAntisymmetric ==
    (CiDone /\ RaceN(6) + RaceN(8) > 0)
    => /\ ci_norm.kind = "float"
       /\ CiNormOn(SwapRace(df)).kind = "float"
       /\ CiNormOn(SwapRace(df)).num * ci_norm.den
            = (0 - ci_norm.num) * CiNormOn(SwapRace(df)).den
       /\ RaceN(6) = RaceN(8) => ci_norm.num = 0

\* a non-zero CI for two non-empty groups
C17_Witness ==
    /\ CiDone /\ ci_norm.kind = "float" /\ ci_norm.num # 0
    /\ RaceN(6) > 0 /\ RaceN(8) > 0

\* ---- C18 ------------------------------------------------------------------
\* C18: the ci_norm cell yields (n_6 - n_8) / (n_6 + n_8), a number in
\* [-1, 1], whenever n_6 + n_8 > 0 (it is 1 when group 8 is empty), and
\* fails exactly when n_6 + n_8 = 0.
C18_CiDefinedUnlessBothEmpty ==
    CiDone =>
      /\ RaceN(6) + RaceN(8) > 0
         => /\ ci_norm.kind = "float"
            /\ ci_norm.den > 0
            /\ ci_norm.num * (RaceN(6) + RaceN(8)) = (RaceN(6) - RaceN(8)) * ci_norm.den
            /\ 0 - ci_norm.den <= ci_norm.num /\ ci_norm.num <= ci_norm.den
            /\ RaceN(8) = 0 => ci_norm.num = ci_norm.den
      /\ RaceN(6) + RaceN(8) = 0 => ci_norm.kind = "raise"
      /\ ci_norm.kind = "raise" => RaceN(6) + RaceN(8) = 0

\* a CI of 1 for a table with rows of group 6 and none of group 8
C18_Witness ==
    /\ CiDone /\ RaceN(6) > 0 /\ RaceN(8) = 0
    /\ ci_norm.kind = "float" /\ ci_norm.num = ci_norm.den

\* ---- C15 ------------------------------------------------------------------
\* the test table with the two age groups exchanged
SwapAgeGroups(test) ==
    [i \in DOMAIN test |->
        [test[i] EXCEPT !.age_groups = IF @ = 0 THEN 1 ELSE IF @ = 1 THEN 0 ELSE @]]
\* C15: with both groups non-empty and a favorable prediction in each, the DI
\* of the tables and the DI of the tables with the groups exchanged multiply
\* to 1.
C15_DIReciprocal ==
    (DIDone /\ ColumnPresent /\ NFavorable(0) > 0 /\ NFavorable(1) > 0)
    => /\ di_result.kind = "float"
       /\ CalculateDI(SwapAgeGroups(test_data), pred_df, pred_col).kind = "float"
       /\ di_result.num * CalculateDI(SwapAgeGroups(test_data), pred_df, pred_col).num
            = di_result.den * CalculateDI(SwapAgeGroups(test_data), pred_df, pred_col).den

\* a DI other than 1, with rows of a third group in the join
C15_Witness ==
    /\ DIDone /\ ColumnPresent /\ NFavorable(0) > 0 /\ NFavorable(1) > 0
    /\ NGroup(2) > 0
    /\ di_result.kind = "float" /\ di_result.num # di_result.den

\* ---- C20 ------------------------------------------------------------------
\* C20: a number returned by calculate_di is non-negative, below 1 exactly
\* when the favorable rate of g0 is below that of g1, 1 exactly when the two
\* rates are equal and above 1 exactly when the rate of g0 is the higher one.
C20_DIOrdersGroups ==
    (DIDone /\ di_result.kind = "float")
    => /\ di_result.num >= 0 /\ di_result.den > 0
       /\ NGroup(0) > 0 /\ NGroup(1) > 0
       /\ di_result.num < di_result.den
            <=> NFavorable(0) * NGroup(1) < NFavorable(1) * NGroup(0)
       /\ di_result.num = di_result.den
            <=> NFavorable(0) * NGroup(1) = NFavorable(1) * NGroup(0)
       /\ di_result.num > di_result.den
            <=> NFavorable(0) * NGroup(1) > NFavorable(1) * NGroup(0)

\* a DI above 1: the younger group has the higher favorable rate
C20_Witness ==
    /\ DIDone /\ di_result.kind = "float"
    /\ di_result.num > di_result.den
    /\ NFavorable(0) * NGroup(1) > NFavorable(1) * NGroup(0)

\* ---- C14 ------------------------------------------------------------------
\* the two compared groups are non-empty and have the same favorable rate
EqualDIRates ==
    /\ NGroup(0) > 0 /\ NGroup(1) > 0
    /\ NFavorable(0) * NGroup(1) = NFavorable(1) * NGroup(0)
EqualDplRates ==
    /\ RaceN(6) > 0 /\ RaceN(8) > 0
    /\ RaceFavorable(6) * RaceN(8) = RaceFavorable(8) * RaceN(6)
\* C14 as stated: non-empty groups with equal favorable rates give DI = 1 and
\* DPL = 0.
C14_EqualRatesAsStated ==
    /\ (DIDone /\ ColumnPresent /\ EqualDIRates)
       => /\ di_result.kind = "float"
          /\ di_result.den > 0 /\ di_result.num = di_result.den
    /\ (DplDone /\ EqualDplRates)
       => /\ dpl.kind = "float"
          /\ dpl.den > 0 /\ dpl.num = 0

\* C14, amended: non-empty groups with equal favorable rates give DPL = 0
\* exactly, and DI = 1 exactly when the common rate is not zero.
C14_EqualRates ==
    /\ (DIDone /\ ColumnPresent /\ EqualDIRates /\ NFavorable(0) > 0)
       => /\ di_result.kind = "float"
          /\ di_result.den > 0 /\ di_result.num = di_result.den
    /\ (DplDone /\ EqualDplRates)
       => /\ dpl.kind = "float"
          /\ dpl.den > 0 /\ dpl.num = 0

\* a DI of 1 for two groups in each of which half of the rows are favorable
C14_Witness ==
    /\ DIDone /\ ColumnPresent /\ EqualDIRates
    /\ NFavorable(0) > 0 /\ NFavorable(0) < NGroup(0)
    /\ di_result.kind = "float" /\ di_result.num = di_result.den

\* ---- C19 ------------------------------------------------------------------
\* the rows of the two compared groups, all other rows dropped
NamedAgeGroups(test) == SelectSeq(test, LAMBDA r : r.age_groups \in {0, 1})
NamedRaces(d) == SelectSeq(d, LAMBDA r : r.RAC1P \in {6, 8})
\* C19: DI, DPL and CI are what they are on the rows of the two compared
\* groups alone, so two tables with the same rows of these groups give the
\* same DI, DPL and CI, whatever other rows they hold.
C19_OnlyNamedGroups ==
    /\ DIDone => di_result = CalculateDI(NamedAgeGroups(test_data), pred_df, pred_col)
    /\ DplDone => dpl = DplOn(NamedRaces(df))
    /\ CiDone => ci_norm = CiNormOn(NamedRaces(df))

\* DPL and CI were computed on a table that also has a row of another code
\* and a row without a code
C19_Witness ==
    /\ DplDone /\ CiDone
    /\ dpl.kind = "float" /\ ci_norm.kind = "float"
    /\ RaceN(1) > 0 /\ RaceN(0) > 0

\* ---- C22 ------------------------------------------------------------------
\* C22: calculate_di hands no exception to its caller: it ends with a number
\* and nothing printed, or with None after printing one of its two messages.
C22_NoExceptionEscapes ==
    DIDone =>
      /\ di_result.raised = ""
      /\ \/ /\ di_result.kind = "float"
            /\ di_result.den > 0
            /\ di_result.printed = ""
         \/ /\ di_result.kind = "None"
            /\ di_result.printed \in {"Wrong inputs provided.",
                                      "There is only one group present in the data."}

\* calculate_di was asked for a column the result table does not have
C22_Witness ==
    /\ DIDone /\ ~ColumnPresent
    /\ NFavorable(0) > 0 /\ NFavorable(1) > 0
    /\ di_result.kind = "None" /\ di_result.printed = "Wrong inputs provided."

\* ---- C23 ------------------------------------------------------------------
\* exactly one of the two age groups has no row in the join
OneGroupEmpty == (NGroup(0) = 0) # (NGroup(1) = 0)
\* C23: with exactly one age group empty in the join, calculate_di prints
\* "There is only one group present in the data." and returns no value;
\* "Wrong inputs provided." is printed for malformed inputs only, never for an
\* empty group.
C23_OnlyOneGroupMessage ==
    (DIDone /\ ColumnPresent /\ OneGroupEmpty)
    => /\ di_result.kind = "None"
       /\ di_result.printed = "There is only one group present in the data."

\* ---- C24 ------------------------------------------------------------------
\* both groups have rows and one of them has no prediction of label 0
LabelZeroAbsent ==
    /\ NGroup(0) > 0 /\ NGroup(1) > 0
    /\ NFavorable(0) = 0 \/ NFavorable(1) = 0
\* C24 as stated: with label 0 absent from a group's predictions,
\* calculate_di returns a number computed from another label's count.
C24_WrongCountAsStated ==
    (DIDone /\ ColumnPresent /\ LabelZeroAbsent) => di_result.kind = "float"

\* C24, amended: with label 0 absent from a group's predictions,
\* value_counts()[0] finds no label 0, and calculate_di prints
\* "Wrong inputs provided." and returns None, never a number.
C24_AbsentLabelIsNone ==
    (DIDone /\ ColumnPresent /\ LabelZeroAbsent)
    => /\ di_result.kind = "None"
       /\ di_result.printed = "Wrong inputs provided."

\* the younger group has rows, all predicted 1, and the older group has a 0
C24_Witness ==
    /\ DIDone /\ ColumnPresent
    /\ NGroup(0) > 1 /\ NFavorable(0) = 0 /\ NFavorable(1) > 0
    /\ di_result.kind = "None"

\* ---- C25 ------------------------------------------------------------------
\* sum of the numerators of a list of weights
RECURSIVE SumNums(_)
SumNums(s) == IF s = <<>> THEN 0 ELSE Head(s).num + SumNums(Tail(s))
\* C25: the per-row weights of a successful reweighing call (all in
\* hundredths) sum to N, and in every (label, group) cell the weighted row
\* count n_gl * w equals n_g * n_l / N.
C25_WeightsKeepMass ==
    (RwCalled /\ rw_result.kind = "list")
    => /\ \A i \in DOMAIN rw_result.list : rw_result.list[i].den = 100
       /\ SumNums(rw_result.list) = 100 * TrainN
       /\ \A i \in DOMAIN rw_result.list :
             LET l == train_data.rows[i].credit_risk
                 g == train_data.rows[i].age_groups
             IN TrainNgl(l, g) * rw_result.list[i].num * TrainN
                  = TrainNg(g) * TrainNl(l) * rw_result.list[i].den

\* ---- C26 ------------------------------------------------------------------
\* C26: on a frame without rows reweighing prints "Dataframe might have no
\* entries." and returns None, not an empty list or an empty mapping.
C26_EmptyFrameReported ==
    (RwCalled /\ TrainN = 0)
    => /\ rw_result.kind = "None"
       /\ \E k \in DOMAIN rw_result.printed :
             rw_result.printed[k] = "Dataframe might have no entries."

\* ---- C29 ------------------------------------------------------------------
\* the frame as it was before any call wrote a weights column
BeforeCalls(data) == [data EXCEPT !.columns = @ \ {"weights"}, !.weights = <<>>]
\* C29: whatever calls came before, a reweighing call returns what a first
\* call on the frame returns for the same return_list, the weights column it
\* leaves is the one a first call leaves, and reweigh_dict stays what the
\* reweigh_dict cell got.
C29_RepeatedCallsAgree ==
    /\ RwCalled
       => /\ rw_result = Reweighing(BeforeCalls(train_data), return_list).result
          /\ train_data = Reweighing(BeforeCalls(train_data), return_list).data
    /\ reweigh_dict.kind # "unset"
       => /\ reweigh_dict.kind = Reweighing(BeforeCalls(train_data), FALSE).result.kind
          /\ reweigh_dict.dict = Reweighing(BeforeCalls(train_data), FALSE).result.dict

\* a second call on a frame that already has the weights column, with
\* weights that differ between rows
C29_Witness ==
    /\ rw_pc = "reweighed" /\ rw_calls = 1
    /\ "weights" \in train_data.columns
    /\ rw_result.kind = "dict" /\ reweigh_dict.kind = "dict"
    /\ Len(train_data.weights) >= 5
    /\ train_data.weights[1] # train_data.weights[Len(train_data.weights)]

\* ---- C21 ------------------------------------------------------------------
\* columns that must not reach a classifier
KeptFromModel == {"ID", "age_groups", "age_years", "credit_risk"}
\* a removal cell has run
AfterRemoval ==
    nb_pc \in {"removed_id", "removed_age", "processed", "transformed",
               "fit_rw", "fit_di", "predicted", "chosen", "error"}
NoKeptColumnInCalls ==
    \A k \in DOMAIN calls : \A j \in DOMAIN calls[k].columns :
        calls[k].columns[j].feature \notin KeptFromModel
FeatureListsAgree ==
    AfterRemoval => model_features = categorical_features \o numerical_features
\* a removal cell is run again
RemovalRerun == nb_pc \in {"removed_id", "removed_age"} /\ nb_pc' = nb_pc
\* C21: no fit or predict call of the notebook gets a column of ID,
\* age_groups, age_years or credit_risk; after a removal cell model_features
\* is categorical_features followed by numerical_features; and a removal cell
\* that is run again leaves the three lists as they are.
C21_ModelInputsClean ==
    /\ [](NoKeptColumnInCalls /\ FeatureListsAgree)
    /\ [][RemovalRerun => UNCHANGED <<model_features, categorical_features,
                                      numerical_features>>]_vars

\* both models were fitted and asked to predict, on a training table that has
\* the identifier, the sensitive attribute and its proxy
C21_Witness ==
    /\ nb_pc = "chosen" /\ Len(calls) = 4
    /\ Len(training_columns) = Len(AllColumns)
    /\ Len(rw_model.columns) >= 2

\* ---- C27 ------------------------------------------------------------------
\* C27: test_predictions_rw are predictions of rw_model on X_test, and
\* test_predictions_di are predictions of di_model on X_test_di.
C27_PredictionsMatchNames ==
    nb_pc \in {"predicted", "chosen"}
    => /\ test_predictions_rw.model = "rw_model"
       /\ test_predictions_rw.X = "X_test"
       /\ test_predictions_di.model = "di_model"
       /\ test_predictions_di.X = "X_test_di"

\* ---- C28 ------------------------------------------------------------------
\* C28: the column the result-assembly cell writes is the column calculate_di
\* and the accuracy and F1 cells read: with a favorable prediction in both
\* age groups the section yields a numeric DI, never "Wrong inputs
\* provided.", and the score cells find their column.
C28_ResultColumnIsRead ==
    /\ nb_pc \in {"assembled", "scored", "error"} => pred_df.col = pred_col
    /\ (nb_pc \in {"assembled", "scored", "error"} /\ DIDone
            /\ NFavorable(0) > 0 /\ NFavorable(1) > 0)
       => /\ di_result.kind = "float"
          /\ di_result.printed # "Wrong inputs provided."
    /\ nb_pc # "error"
====
